---- MODULE Spec2Model ----
(***************************************************************************)
(* Model of pmr.wfctrl.core: BaseWorkspace / CmdWorkspace path tracking,   *)
(* marker based initialisation, the command dispatch table and the generic *)
(* BaseDvcsCmd init / save protocol.                                       *)
(*                                                                         *)
(* Python strings are sequences of one-character strings, so that          *)
(* startswith, slicing, join, normpath and sorted are computed the way the *)
(* code computes them.  Python's None is the value None below.            *)
(***************************************************************************)
EXTENDS Integers, Sequences, FiniteSets, TLC

VARIABLES ws, cmd, dir, disk, repo, calls, raised, ret, last

vars == <<ws, cmd, dir, disk, repo, calls, raised, ret, last>>

(* ------------------------------ bounds --------------------------------- *)

\* most paths a workspace tracks at once
MaxFiles == 3

\* most commits a repository history holds
MaxCommits == 2

(* ----------------------------- strings --------------------------------- *)

None == <<"None">>

\* no workspace object (a real one has an absolute working_dir)
NoWorkspace == [working_dir |-> <<>>, files |-> {}, marker |-> None, cmd_table |-> {}]

\* code point of the characters the model uses (str comparison is by code point)
Ord(c) ==
    CASE c = "." -> 46
      [] c = "/" -> 47
      [] c = "2" -> 50
      [] c = "a" -> 97
      [] c = "b" -> 98
      [] c = "g" -> 103
      [] c = "m" -> 109
      [] c = "w" -> 119
      [] c = "x" -> 120

\* s[k:]
SliceFrom(s, k) == IF k >= Len(s) THEN <<>> ELSE SubSeq(s, k + 1, Len(s))

\* s.startswith(p)
startswith(s, p) == Len(p) <= Len(s) /\ SubSeq(s, 1, Len(p)) = p

\* s.endswith(p)
endswith(s, p) == Len(p) <= Len(s) /\ SubSeq(s, Len(s) - Len(p) + 1, Len(s)) = p

\* a < b for str
RECURSIVE StrLess(_, _)
StrLess(a, b) ==
    IF b = <<>> THEN FALSE
    ELSE IF a = <<>> THEN TRUE
    ELSE IF Head(a) = Head(b) THEN StrLess(Tail(a), Tail(b))
    ELSE Ord(Head(a)) < Ord(Head(b))

\* s.split('/')
RECURSIVE split(_)
split(s) ==
    IF \A i \in 1..Len(s) : s[i] # "/" THEN <<s>>
    ELSE LET k == CHOOSE i \in 1..Len(s) :
                      s[i] = "/" /\ \A j \in 1..(i - 1) : s[j] # "/"
         IN  <<SubSeq(s, 1, k - 1)>> \o split(SliceFrom(s, k))

\* '/'.join(comps)
RECURSIVE joinslash(_)
joinslash(comps) ==
    IF comps = <<>> THEN <<>>
    ELSE IF Len(comps) = 1 THEN comps[1]
    ELSE comps[1] \o <<"/">> \o joinslash(Tail(comps))

\* os.path.isabs
isabs(s) == startswith(s, <<"/">>)

\* os.path.join(a, b)
join(a, b) ==
    IF startswith(b, <<"/">>) THEN b
    ELSE IF a = <<>> \/ endswith(a, <<"/">>) THEN a \o b
    ELSE a \o <<"/">> \o b

\* the component loop of posixpath.normpath
RECURSIVE normcomps(_, _, _)
normcomps(comps, new_comps, initial_slashes) ==
    IF comps = <<>> THEN new_comps
    ELSE LET comp == Head(comps)
             up   == <<".", ".">>
         IN  IF comp = <<>> \/ comp = <<".">>
             THEN normcomps(Tail(comps), new_comps, initial_slashes)
             ELSE IF \/ comp # up
                     \/ (initial_slashes = 0 /\ new_comps = <<>>)
                     \/ (new_comps # <<>> /\ new_comps[Len(new_comps)] = up)
             THEN normcomps(Tail(comps), Append(new_comps, comp), initial_slashes)
             ELSE IF new_comps # <<>>
             THEN normcomps(Tail(comps), SubSeq(new_comps, 1, Len(new_comps) - 1),
                            initial_slashes)
             ELSE normcomps(Tail(comps), new_comps, initial_slashes)

\* os.path.normpath
normpath(path) ==
    IF path = <<>> THEN <<".">>
    ELSE LET initial_slashes ==
                 IF ~startswith(path, <<"/">>) THEN 0
                 ELSE IF startswith(path, <<"/", "/">>)
                         /\ ~startswith(path, <<"/", "/", "/">>) THEN 2
                 ELSE 1
             body == joinslash(normcomps(split(path), <<>>, initial_slashes))
             out  == [i \in 1..initial_slashes |-> "/"] \o body
         IN  IF out = <<>> THEN <<".">> ELSE out

\* the process's current directory, used by abspath for relative input
Cwd == <<"/">>

\* os.path.abspath
abspath(path) == IF isabs(path) THEN normpath(path) ELSE normpath(join(Cwd, path))

(* ------------------------------ sorted --------------------------------- *)

\* every order in which list(a_set) may enumerate the members of a set
list(S) ==
    {l \in [1..Cardinality(S) -> S] : \A i, j \in 1..Cardinality(S) : l[i] = l[j] => i = j}

\* insert x into the ascending sequence l, after the elements not greater than it
RECURSIVE insort(_, _)
insort(l, x) ==
    IF l = <<>> THEN <<x>>
    ELSE IF StrLess(x, Head(l)) THEN <<x>> \o l
    ELSE <<Head(l)>> \o insort(Tail(l), x)

\* sorted(l)
RECURSIVE sorted(_)
sorted(l) == IF l = <<>> THEN <<>> ELSE insort(sorted(SubSeq(l, 1, Len(l) - 1)), l[Len(l)])

(* ----------------------- BaseWorkspace (pure part) --------------------- *)

\* BaseWorkspace.__init__: the stored working_dir
BaseWorkspace_working_dir(working_dir) == abspath(normpath(working_dir))

\* add_file, first step: the absolute form of the argument
add_file_filename(working_dir, filename) ==
    IF ~isabs(filename)
    THEN abspath(normpath(join(working_dir, filename)))
    ELSE filename

\* add_file, the containment test that guards the ValueError
add_file_accepts(working_dir, filename) ==
    startswith(add_file_filename(working_dir, filename), working_dir)

\* add_file, the relative name that is put into self.files
add_file_relname(working_dir, filename) ==
    SliceFrom(add_file_filename(working_dir, filename), Len(working_dir) + 1)

\* get_tracked_subpaths without the sort
get_tracked_subpaths_unsorted(l) == l

\* get_tracked_subpaths, given the order l in which list(self.files) came out
get_tracked_subpaths(l) == sorted(l)

(* ------------------ backend primitives (recording stub) ---------------- *)

Call(op, arg) == [op |-> op, arg |-> arg]

\* self.remote is truthy
Truthy(remote) == remote # None /\ remote # <<>>

\* init_new(workspace): a fresh versioned tree, its marker directory on disk
init_new(d, w) == d \cup {join(w.working_dir, w.marker)}

\* clone(workspace): the tree populated from the remote, marker included
clone(d, w) == d \cup {join(w.working_dir, w.marker)}

\* add(workspace, path): stage one path; the stub only records the call
add(r, path) == r

\* commit(workspace, message): one more commit at the end of the history
commit(r, message) == [r EXCEPT !.history = Append(@, message)]

\* push(workspace): transmit the history to the remote, no-op without one
push(r, remote) == IF Truthy(remote) THEN [r EXCEPT !.pushed = Len(r.history)] ELSE r

\* the effect of one recorded primitive call on the repository; local tells
\* whether some commit was created while no remote was configured
Effect(r, c, remote) ==
    CASE c.op = "add"    -> add(r, c.arg)
      [] c.op = "commit" -> [commit(r, c.arg) EXCEPT
                                !.local = @ \/ ~Truthy(remote)]
      [] c.op = "push"   -> push(r, remote)

RECURSIVE Effects(_, _, _)
Effects(r, cs, remote) ==
    IF cs = <<>> THEN r ELSE Effects(Effect(r, Head(cs), remote), Tail(cs), remote)

(* ------------------------- dispatch and protocol ----------------------- *)

\* dummy_action(workspace): takes the workspace and nothing else
dummy_action(kw) == IF DOMAIN kw = {} THEN "none" ELSE "TypeError"

\* CmdWorkspace.__init__: assert marker is not None.  The statement is only
\* executed by an interpreter that keeps assertions (debug); python -O drops it
marker_asserted(marker, debug) == debug => marker # None

\* CmdWorkspace.get_cmd: the bound handler, or the shared dummy action
get_cmd(cmd_table, name) == IF name \in cmd_table THEN name ELSE "dummy_action"

\* check_marker that never finds the marker
check_marker_absent(d, w) == FALSE

\* CmdWorkspace.check_marker
check_marker(d, w) == join(w.working_dir, w.marker) \in d

\* BaseDvcsCmd.init testing the remote against None instead of its truth value
BaseDvcsCmd_init_notnone(remote) == IF remote # None THEN "clone" ELSE "init_new"

\* BaseDvcsCmd.init: the bootstrap primitive it picks
BaseDvcsCmd_init(remote) == IF Truthy(remote) THEN "clone" ELSE "init_new"

\* BaseDvcsCmd.save with the push issued before the commit
BaseDvcsCmd_save_pushfirst(paths, message) ==
    [i \in 1..Len(paths) |-> Call("add", paths[i])]
        \o <<Call("push", <<>>), Call("commit", message)>>

\* BaseDvcsCmd.save with a commit and a push inside the loop as well
BaseDvcsCmd_save_commit_each(paths, message) ==
    [i \in 1..(2 * Len(paths)) |->
        IF i % 2 = 1 THEN Call("add", paths[(i + 1) \div 2]) ELSE Call("commit", message)]
        \o <<Call("commit", message), Call("push", <<>>)>>

\* BaseDvcsCmd.save: the primitive calls it makes when none of them fails
BaseDvcsCmd_save(paths, message) ==
    [i \in 1..Len(paths) |-> Call("add", paths[i])]
        \o <<Call("commit", message), Call("push", <<>>)>>

\* a save that catches the error and carries on with the rest of the plan
Invoked_all(plan, failAt) == plan

\* the calls of a plan that are made when call number failAt raises (0: none does)
Invoked(plan, failAt) == IF failAt = 0 THEN plan ELSE SubSeq(plan, 1, failAt)

\* the calls of a plan that take effect when call number failAt raises
Succeeded(plan, failAt) == IF failAt = 0 THEN plan ELSE SubSeq(plan, 1, failAt - 1)

\* CmdWorkspace.initialize, run on workspace w; fail: the bootstrap primitive raises
\* BaseDvcsCmd.init(workspace, **kw), called as a handler or directly: the
\* entry and the one bootstrap primitive it calls; fail: that primitive raises
cmd_init(w, remote, d, fail) ==
    LET prim == BaseDvcsCmd_init(remote)
    IN  [calls  |-> <<Call("init", <<>>), Call(prim, <<>>)>>,
         raised |-> IF fail THEN "BackendError" ELSE "none",
         disk   |-> IF fail THEN d
                    ELSE IF prim = "clone" THEN clone(d, w) ELSE init_new(d, w)]

\* BaseDvcsCmd.save(workspace, message='', **kw), called as a handler or
\* directly, on the listing l of the tracked paths; failAt: the primitive call
\* that raises (0: none)
cmd_save(remote, r, l, kw, failAt) ==
    LET message == IF "message" \in DOMAIN kw THEN kw.message ELSE <<>>
        plan    == BaseDvcsCmd_save(get_tracked_subpaths(l), message)
    IN  [calls  |-> <<Call("save", <<>>)>> \o Invoked(plan, failAt),
         raised |-> IF failAt = 0 THEN "none" ELSE "BackendError",
         repo   |-> Effects(r, Succeeded(plan, failAt), remote)]

\* CmdWorkspace.initialize(**kw).  check_marker joins working_dir and marker
\* before it looks at the disk, and join raises TypeError on a marker of None
initialize(w, remote, d, kw, fail) ==
    IF w.marker = None
    THEN [calls |-> <<Call("check_marker", <<>>)>>, raised |-> "TypeError", disk |-> d]
    ELSE IF check_marker(d, w)
    THEN [calls |-> <<Call("check_marker", <<>>)>>, raised |-> "none", disk |-> d]
    ELSE IF get_cmd(w.cmd_table, "init") = "dummy_action"
    THEN [calls  |-> <<Call("check_marker", <<>>), Call("dummy_action", <<>>)>>,
          raised |-> dummy_action(kw), disk |-> d]
    ELSE LET o == cmd_init(w, remote, d, fail)
         IN  [calls  |-> <<Call("check_marker", <<>>)>> \o o.calls,
              raised |-> o.raised,
              disk   |-> o.disk]

\* CmdWorkspace.save that checks the marker again before it dispatches
save_recheck(w, remote, r, l, kw, failAt) ==
    IF get_cmd(w.cmd_table, "save") = "dummy_action"
    THEN [calls  |-> <<Call("check_marker", <<>>), Call("dummy_action", <<>>)>>,
          raised |-> dummy_action(kw), repo |-> r]
    ELSE LET o == cmd_save(remote, r, l, kw, failAt)
         IN  [calls  |-> <<Call("check_marker", <<>>)>> \o o.calls,
              raised |-> o.raised,
              repo   |-> o.repo]

\* CmdWorkspace.save, run on workspace w with keyword options kw
save(w, remote, r, l, kw, failAt) ==
    IF get_cmd(w.cmd_table, "save") = "dummy_action"
    THEN [calls  |-> <<Call("dummy_action", <<>>)>>,
          raised |-> dummy_action(kw), repo |-> r]
    ELSE cmd_save(remote, r, l, kw, failAt)

(* --------------------- remote and credential resolver ------------------ *)

\* the command's default_remote: the backend's name for its standard target
default_remote == <<"o">>

\* position of the ':' of the first '://' in s, 0 when there is none
SchemeSep(s) ==
    LET ks == {k \in 1..(Len(s) - 2) : SubSeq(s, k, k + 2) = <<":", "/", "/">>}
    IN  IF ks = {} THEN 0 ELSE CHOOSE k \in ks : \A j \in ks : k <= j

\* position just after the authority of a URL whose '://' is at k
AuthorityEnd(s, k) ==
    LET es == {e \in (k + 3)..Len(s) : s[e] = "/"}
    IN  IF es = {} THEN Len(s) + 1 ELSE CHOOSE e \in es : \A j \in es : e <= j

\* s is a URL with a scheme and a non-empty authority component
HasAuthority(s) ==
    /\ SchemeSep(s) > 1
    /\ AuthorityEnd(s, SchemeSep(s)) > SchemeSep(s) + 3

\* the host[:port] part of an authority: what follows its last '@'
RECURSIVE HostPort(_)
HostPort(authority) ==
    IF \A i \in 1..Len(authority) : authority[i] # "@" THEN authority
    ELSE HostPort(Tail(authority))

\* the URL s with its authority rewritten to username:password@host[:port]
WithCredentials(s, username, password) ==
    LET k == SchemeSep(s)
        e == AuthorityEnd(s, k)
    IN  SubSeq(s, 1, k + 2) \o username \o <<":">> \o password \o <<"@">>
            \o HostPort(SubSeq(s, k + 3, e - 1)) \o SliceFrom(s, e - 1)

\* read_remote(workspace): the remote stored in the workspace's configuration
read_remote(r) == r.stored

\* write_remote(workspace): store the command's remote
write_remote(r, remote) == [r EXCEPT !.stored = remote]

\* get_remote that lets the stored remote override an explicit target
get_remote_stored_first(r, target_remote, username, password) ==
    LET base == IF read_remote(r) # None THEN read_remote(r)
                ELSE IF target_remote # None THEN target_remote
                ELSE default_remote
    IN  IF username # None /\ password # None /\ HasAuthority(base)
        THEN WithCredentials(base, username, password)
        ELSE base

\* get_remote(workspace, target_remote, username, password)
get_remote(r, target_remote, username, password) ==
    LET base == IF target_remote # None THEN target_remote
                ELSE IF read_remote(r) # None THEN read_remote(r)
                ELSE default_remote
    IN  IF username # None /\ password # None /\ HasAuthority(base)
        THEN WithCredentials(base, username, password)
        ELSE base

\* update_remote that writes the remote whether or not it differs
update_remote_rewrite(remote, r) ==
    IF remote = None
    THEN [remote |-> read_remote(r), repo |-> r, calls |-> <<Call("read_remote", <<>>)>>]
    ELSE [remote |-> remote, repo |-> write_remote(r, remote),
          calls |-> <<Call("read_remote", <<>>), Call("write_remote", remote)>>]

\* update_remote(workspace): reconcile the in-memory remote with the stored one
update_remote(remote, r) ==
    IF remote = None
    THEN [remote |-> read_remote(r), repo |-> r, calls |-> <<Call("read_remote", <<>>)>>]
    ELSE IF remote # read_remote(r)
    THEN [remote |-> remote, repo |-> write_remote(r, remote),
          calls |-> <<Call("read_remote", <<>>), Call("write_remote", remote)>>]
    ELSE [remote |-> remote, repo |-> r, calls |-> <<Call("read_remote", <<>>)>>]

(* ------------------------------- inputs -------------------------------- *)

\* the managed directory as handed to the constructor
WorkingDirInputs == { <<"/", "w", "/">>, <<"/">> }

\* marker argument of the constructor
MarkerInputs == { None, <<".", "g">> }

\* cmd_table argument: the phases bound to the command's handlers
CmdTableInputs == SUBSET {"init", "save"}

\* values assigned to the command's remote attribute
RemoteInputs == { None, <<>>, <<"/", "x">> }

\* remotes assigned while the credential resolver is exercised: two URLs
\* (with and without a path) and a bare name
RemoteUrlInputs ==
    { None, <<"h", ":", "/", "/", "x", "/", "r">>, <<"h", ":", "/", "/", "y">>, <<"n">> }

\* target_remote arguments
TargetInputs == { None, <<"n">>, <<"h", ":", "/", "/", "y", "/", "r">> }

\* username arguments
UsernameInputs == { None, <<"u">> }

\* password arguments
PasswordInputs == { None, <<"p">> }

\* arguments of add_file
FilenameInputs ==
    { <<"a">>, <<".", "/", "b">>, <<"a", "/", "b">>, <<"a", "b">>,
      <<".", ".", "/", "x">>, <<".", ".", "/", "w", "2">>, <<>>,
      <<"/", "w", "/", "a">>, <<"/", "w", "/", ".", ".", "/", "x">>,
      <<"/", "x">>, <<"/", "w", "2", "/", "a">> }

\* arguments of add_file while the save protocol is exercised
SaveFilenameInputs == { <<"a">>, <<".", "/", "b">>, <<"a", "/", "b">> }

\* keyword options of save
KwInputs ==
    { <<>>,
      [message |-> <<"m">>],
      [message |-> <<"m">>, username |-> <<"a">>, password |-> <<"b">>] }

\* arguments of add_file while the direct calls are exercised
DirectFilenameInputs == { <<"a">> }

\* dispatch tables while the direct calls are exercised: nothing bound, and
\* both phases bound to the command
DirectCmdTableInputs == { {}, {"init", "save"} }

\* keyword options of initialize and of the direct calls of the command
CmdKwInputs == { <<>>, [message |-> <<"m">>] }

(* ------------------------------- state --------------------------------- *)

NoOp == [op |-> "none", marker |-> None, cmd_table |-> {}, filename |-> <<>>,
         kw |-> <<>>, failAt |-> 0, remote |-> None, nfiles |-> 0,
         target |-> None, username |-> None, password |-> None]

EmptyRepo == [history |-> <<>>, pushed |-> 0, local |-> FALSE, stored |-> None]

\* a process starts with no workspace object, a command without remote, and a
\* managed directory that is either untouched or already initialised
Init ==
    /\ ws = NoWorkspace
    /\ cmd = [remote |-> None]
    /\ dir \in WorkingDirInputs
    /\ disk \in { {}, {join(BaseWorkspace_working_dir(dir), <<".", "g">>)} }
    /\ last = NoOp
    /\ repo = EmptyRepo
    /\ calls = <<>>
    /\ raised = "none"
    /\ ret = None

(* ------------------------------- actions ------------------------------- *)

\* CmdWorkspace(dir, marker=marker, cmd_table=cmd_table); fail: the bootstrap
\* primitive raises.  ws is the object the constructor call produced, if any.
\* debug: the interpreter keeps assert statements (it drops them under -O);
\* the two builds differ only when the marker is None.
CmdWorkspace(marker, cmd_table, fail) ==
    /\ last' = [NoOp EXCEPT !.op = "CmdWorkspace", !.marker = marker,
                            !.cmd_table = cmd_table]
    /\ ret' = None
    /\ UNCHANGED <<cmd, dir, repo>>
    /\ \E debug \in BOOLEAN :
        /\ marker # None => debug
        /\ IF ~marker_asserted(marker, debug)
           THEN /\ ~fail
                /\ ws' = NoWorkspace
                /\ calls' = <<>>
                /\ raised' = "AssertionError"
                /\ UNCHANGED disk
           ELSE LET w == [working_dir |-> BaseWorkspace_working_dir(dir), files |-> {},
                          marker |-> marker, cmd_table |-> cmd_table]
                    o == initialize(w, cmd.remote, disk, <<>>, fail)
                IN  /\ fail => Len(o.calls) = 3
                    /\ ws' = IF o.raised = "none" THEN w ELSE NoWorkspace
                    /\ calls' = o.calls
                    /\ raised' = o.raised
                    /\ disk' = o.disk

\* workspace.initialize(**kw) on a constructed workspace: the marker is
\* checked again and, when it is missing, the init handler runs; the tracked
\* paths stay as they are.  fail: the bootstrap primitive raises
Initialize(kw, fail) ==
    /\ ws # NoWorkspace
    /\ last' = [NoOp EXCEPT !.op = "initialize", !.kw = kw,
                            !.nfiles = Cardinality(ws.files)]
    /\ LET o == initialize(ws, cmd.remote, disk, kw, fail)
       IN  /\ fail => Len(o.calls) = 3
           /\ calls' = o.calls
           /\ raised' = o.raised
           /\ disk' = o.disk
    /\ ret' = None
    /\ UNCHANGED <<ws, cmd, dir, repo>>

\* cmd.init(workspace) called directly: no marker check, no dispatch table
CmdInit(fail) ==
    /\ ws # NoWorkspace
    /\ last' = [NoOp EXCEPT !.op = "cmd.init", !.nfiles = Cardinality(ws.files)]
    /\ LET o == cmd_init(ws, cmd.remote, disk, fail)
       IN  /\ calls' = o.calls
           /\ raised' = o.raised
           /\ disk' = o.disk
    /\ ret' = None
    /\ UNCHANGED <<ws, cmd, dir, repo>>

\* workspace.add_file(filename)
add_file(filename) ==
    /\ ws # NoWorkspace
    /\ last' = [NoOp EXCEPT !.op = "add_file", !.filename = filename]
    /\ ret' = None
    /\ calls' = <<>>
    /\ UNCHANGED <<cmd, dir, disk, repo>>
    /\ IF ~add_file_accepts(ws.working_dir, filename)
       THEN /\ raised' = "ValueError"
            /\ UNCHANGED ws
       ELSE /\ raised' = "none"
            /\ ws' = [ws EXCEPT !.files = @ \cup {add_file_relname(ws.working_dir, filename)}]
            /\ Cardinality(ws'.files) <= MaxFiles

\* a reset that leaves the tracked paths in place
reset_keep ==
    /\ ws # NoWorkspace
    /\ last' = [NoOp EXCEPT !.op = "reset", !.nfiles = Cardinality(ws.files)]
    /\ ret' = None
    /\ calls' = <<>>
    /\ raised' = "none"
    /\ UNCHANGED <<ws, cmd, dir, disk, repo>>

\* workspace.reset()
reset ==
    /\ ws # NoWorkspace
    /\ last' = [NoOp EXCEPT !.op = "reset", !.nfiles = Cardinality(ws.files)]
    /\ ws' = [ws EXCEPT !.files = {}]
    /\ ret' = None
    /\ calls' = <<>>
    /\ raised' = "none"
    /\ UNCHANGED <<cmd, dir, disk, repo>>

\* workspace.get_tracked_subpaths()
GetTrackedSubpaths ==
    /\ ws # NoWorkspace
    /\ last' = [NoOp EXCEPT !.op = "get_tracked_subpaths"]
    /\ \E l \in list(ws.files) : ret' = get_tracked_subpaths(l)
    /\ calls' = <<>>
    /\ raised' = "none"
    /\ UNCHANGED <<ws, cmd, dir, disk, repo>>

\* a save that forgets the tracked paths once it has gone through
Save_untrack(kw, failAt) ==
    /\ ws # NoWorkspace
    /\ last' = [NoOp EXCEPT !.op = "save", !.kw = kw, !.failAt = failAt,
                            !.nfiles = Cardinality(ws.files)]
    /\ \E l \in list(ws.files) :
           LET o == save(ws, cmd.remote, repo, l, kw, failAt)
           IN  /\ failAt > 0 => get_cmd(ws.cmd_table, "save") = "save"
               /\ Len(o.repo.history) <= MaxCommits
               /\ calls' = o.calls
               /\ raised' = o.raised
               /\ repo' = o.repo
               /\ ws' = IF o.raised = "none" THEN [ws EXCEPT !.files = {}] ELSE ws
    /\ ret' = None
    /\ UNCHANGED <<cmd, dir, disk>>

\* workspace.save(**kw); failAt: the primitive call that raises (0: none)
Save(kw, failAt) ==
    /\ ws # NoWorkspace
    /\ last' = [NoOp EXCEPT !.op = "save", !.kw = kw, !.failAt = failAt,
                            !.nfiles = Cardinality(ws.files)]
    /\ \E l \in list(ws.files) :
           LET o == save(ws, cmd.remote, repo, l, kw, failAt)
           IN  /\ failAt > 0 => get_cmd(ws.cmd_table, "save") = "save"
               /\ Len(o.repo.history) <= MaxCommits
               /\ calls' = o.calls
               /\ raised' = o.raised
               /\ repo' = o.repo
    /\ ret' = None
    /\ UNCHANGED <<ws, cmd, dir, disk>>

\* cmd.save(workspace, **kw) called directly: the protocol runs whatever the
\* dispatch table of the workspace binds
CmdSave(kw, failAt) ==
    /\ ws # NoWorkspace
    /\ last' = [NoOp EXCEPT !.op = "cmd.save", !.kw = kw, !.failAt = failAt,
                            !.nfiles = Cardinality(ws.files)]
    /\ \E l \in list(ws.files) :
           LET o == cmd_save(cmd.remote, repo, l, kw, failAt)
           IN  /\ Len(o.repo.history) <= MaxCommits
               /\ calls' = o.calls
               /\ raised' = o.raised
               /\ repo' = o.repo
    /\ ret' = None
    /\ UNCHANGED <<ws, cmd, dir, disk>>

\* cmd.remote = remote
SetRemote(remote) ==
    /\ last' = [NoOp EXCEPT !.op = "set_remote", !.remote = remote]
    /\ cmd' = [cmd EXCEPT !.remote = remote]
    /\ ret' = None
    /\ calls' = <<>>
    /\ raised' = "none"
    /\ UNCHANGED <<ws, dir, disk, repo>>

\* cmd.get_remote(workspace, target_remote, username, password)
GetRemote(target_remote, username, password) ==
    /\ ws # NoWorkspace
    /\ last' = [NoOp EXCEPT !.op = "get_remote", !.target = target_remote,
                            !.username = username, !.password = password]
    /\ ret' = get_remote(repo, target_remote, username, password)
    /\ calls' = <<Call("read_remote", <<>>)>>
    /\ raised' = "none"
    /\ UNCHANGED <<ws, cmd, dir, disk, repo>>

\* cmd.write_remote(workspace)
WriteRemote ==
    /\ ws # NoWorkspace
    /\ last' = [NoOp EXCEPT !.op = "write_remote"]
    /\ repo' = write_remote(repo, cmd.remote)
    /\ ret' = None
    /\ calls' = <<Call("write_remote", cmd.remote)>>
    /\ raised' = "none"
    /\ UNCHANGED <<ws, cmd, dir, disk>>

\* cmd.update_remote(workspace)
UpdateRemote ==
    /\ ws # NoWorkspace
    /\ last' = [NoOp EXCEPT !.op = "update_remote"]
    /\ LET o == update_remote(cmd.remote, repo)
       IN  /\ cmd' = [cmd EXCEPT !.remote = o.remote]
           /\ repo' = o.repo
           /\ calls' = o.calls
    /\ ret' = None
    /\ raised' = "none"
    /\ UNCHANGED <<ws, dir, disk>>

\* a transfer that stores the target it resolved
Transfer_persist(op, username, password) ==
    /\ ws # NoWorkspace
    /\ last' = [NoOp EXCEPT !.op = op, !.username = username, !.password = password]
    /\ calls' = <<Call(op, get_remote(repo, None, username, password))>>
    /\ repo' = write_remote(repo, get_remote(repo, None, username, password))
    /\ ret' = None
    /\ raised' = "none"
    /\ UNCHANGED <<ws, cmd, dir, disk>>

\* cmd.push / cmd.pull (workspace, username, password): the transfer goes to
\* the target get_remote resolves
Transfer(op, username, password) ==
    /\ ws # NoWorkspace
    /\ last' = [NoOp EXCEPT !.op = op, !.username = username, !.password = password]
    /\ calls' = <<Call(op, get_remote(repo, None, username, password))>>
    /\ ret' = None
    /\ raised' = "none"
    /\ UNCHANGED <<ws, cmd, dir, disk, repo>>

\* the marker directory disappears from disk (removed from outside)
MarkerRemoved ==
    /\ disk # {}
    /\ disk' = {}
    /\ last' = [NoOp EXCEPT !.op = "marker_removed"]
    /\ ret' = None
    /\ calls' = <<>>
    /\ raised' = "none"
    /\ UNCHANGED <<ws, cmd, dir, repo>>

\* the save protocol: construction, tracking of well-formed paths, save
Next ==
    \/ \E marker \in MarkerInputs, cmd_table \in CmdTableInputs, fail \in BOOLEAN :
           CmdWorkspace(marker, cmd_table, fail)
    \/ \E filename \in SaveFilenameInputs : add_file(filename)
    \/ reset
    \/ \E kw \in KwInputs, failAt \in 0..(MaxFiles + 2) :
           /\ failAt <= Cardinality(ws.files) + 2
           /\ Save(kw, failAt)
    \/ \E remote \in RemoteInputs : SetRemote(remote)
    \/ GetTrackedSubpaths
    \/ MarkerRemoved

Spec == Init /\ [][Next]_vars

\* path tracking: construction, add_file on every kind of path, listing, reset
NextTrack ==
    \/ CmdWorkspace(<<".", "g">>, {}, FALSE)
    \/ \E filename \in FilenameInputs : add_file(filename)
    \/ reset
    \/ GetTrackedSubpaths

SpecTrack == Init /\ [][NextTrack]_vars

\* remotes: construction, setting, storing, reconciling and resolving the
\* remote, push and pull with credentials
NextRemote ==
    \/ CmdWorkspace(<<".", "g">>, {"init", "save"}, FALSE)
    \/ \E remote \in RemoteUrlInputs : SetRemote(remote)
    \/ WriteRemote
    \/ UpdateRemote
    \/ \E target_remote \in TargetInputs, username \in UsernameInputs,
          password \in PasswordInputs : GetRemote(target_remote, username, password)
    \/ \E op \in {"push", "pull"}, username \in UsernameInputs,
          password \in PasswordInputs : Transfer(op, username, password)

SpecRemote == Init /\ [][NextRemote]_vars

\* the public entry points behind the constructor and the dispatch table,
\* called on a constructed workspace: workspace.initialize, cmd.init and
\* cmd.save
NextDirect ==
    \/ \E cmd_table \in DirectCmdTableInputs, fail \in BOOLEAN :
           CmdWorkspace(<<".", "g">>, cmd_table, fail)
    \/ \E filename \in DirectFilenameInputs : add_file(filename)
    \/ reset
    \/ \E kw \in CmdKwInputs, fail \in BOOLEAN : Initialize(kw, fail)
    \/ \E fail \in BOOLEAN : CmdInit(fail)
    \/ \E kw \in CmdKwInputs, failAt \in 0..(MaxFiles + 2) :
           /\ failAt <= Cardinality(ws.files) + 2
           /\ CmdSave(kw, failAt)
    \/ \E remote \in RemoteInputs : SetRemote(remote)
    \/ MarkerRemoved

SpecDirect == Init /\ [][NextDirect]_vars

(* ===================== vocabulary of the properties ==================== *)

\* a precedes b in lexicographic order of code points
LexLess(a, b) ==
    \E k \in 0..Len(a) :
        /\ k <= Len(b)
        /\ \A i \in 1..k : a[i] = b[i]
        /\ \/ (k = Len(a) /\ k < Len(b))
           \/ (k < Len(a) /\ k < Len(b) /\ Ord(a[k + 1]) < Ord(b[k + 1]))

\* the sequence q lists exactly the members of S, ascending, none twice
AscendingListingOf(q, S) ==
    /\ Len(q) = Cardinality(S)
    /\ {q[i] : i \in 1..Len(q)} = S
    /\ \A i \in 1..(Len(q) - 1) : LexLess(q[i], q[i + 1])

\* the message a save call passes on: the message option, '' without one
MessageOf(kw) == IF "message" \in DOMAIN kw THEN kw.message ELSE <<>>

\* the primitive calls of the last operation, the handler entry left out
Primitives == SubSeq(calls, 2, Len(calls))

\* number of calls of primitive op in the last operation
Count(op) == Cardinality({i \in 1..Len(calls) : calls[i].op = op})

\* the last operation ran the command's save: workspace.save dispatched to
\* it, or it was called directly
SaveRan == (last.op = "save" /\ "save" \in ws.cmd_table) \/ last.op = "cmd.save"

(* ================================= C1 ================================== *)

\* C1: a save whose primitives all succeed invokes add exactly once per
\* tracked path in lexicographic order of the paths, then commit exactly once
\* with the message of the call, then push exactly once, and nothing else.
C1_SaveOrder ==
    (SaveRan /\ raised = "none") =>
        LET n == Cardinality(ws.files)
        IN  /\ Len(Primitives) = n + 2
            /\ \A i \in 1..n : Primitives[i].op = "add"
            /\ AscendingListingOf([i \in 1..n |-> Primitives[i].arg], ws.files)
            /\ Primitives[n + 1] = Call("commit", MessageOf(last.kw))
            /\ Primitives[n + 2].op = "push"

\* a save of three tracked paths with message "m" has completed
C1_Witness ==
    /\ SaveRan /\ raised = "none"
    /\ Cardinality(ws.files) = 3
    /\ MessageOf(last.kw) = <<"m">>

(* ================================= C5 ================================== *)

\* C5: get_tracked_subpaths() returns exactly the tracked set as a sequence
\* in ascending lexicographic order without duplicates, whatever order the
\* set was built or enumerated in.
C5_SortedListing ==
    last.op = "get_tracked_subpaths" => AscendingListingOf(ret, ws.files)

\* a listing of three tracked paths has been returned
C5_Witness == last.op = "get_tracked_subpaths" /\ ret # None /\ Len(ret) = 3

(* ============================== C2 .. C4 =============================== *)

\* the non-empty components of a path
Components(path) == SelectSeq(split(path), LAMBDA comp : comp # <<>>)

\* the normalized absolute form of an add_file argument
AbsoluteForm(working_dir, filename) ==
    normpath(IF isabs(filename) THEN filename ELSE join(working_dir, filename))

\* the location is working_dir itself or lies below it
AtOrBelow(working_dir, location) ==
    LET w == Components(working_dir)
        c == Components(location)
    IN  Len(w) <= Len(c) /\ SubSeq(c, 1, Len(w)) = w

\* the location lies strictly inside working_dir
StrictlyInside(working_dir, location) ==
    /\ AtOrBelow(working_dir, location)
    /\ Len(Components(location)) > Len(Components(working_dir))

\* the workspace-relative form of a location inside working_dir
RelativeForm(working_dir, location) ==
    joinslash(SubSeq(Components(location), Len(Components(working_dir)) + 1,
                     Len(Components(location))))

\* C2: add_file of a path whose normalized absolute form lies outside
\* working_dir fails with the out-of-bounds error (ValueError in the code).
C2_OutsideRejected ==
    (last.op = "add_file" /\ ~AtOrBelow(ws.working_dir, AbsoluteForm(ws.working_dir, last.filename)))
        => raised = "ValueError"

\* C3: every tracked path, joined to working_dir and normalized, is a
\* location strictly inside working_dir.
C3_TrackedStrictlyInside ==
    \A f \in ws.files :
        StrictlyInside(ws.working_dir, normpath(ws.working_dir \o <<"/">> \o f))

\* C4: add_file of a relative path whose normalized absolute form lies
\* inside working_dir succeeds, and the tracked set then holds the
\* workspace-relative form of that path.
C4_InsideTracked ==
    (/\ last.op = "add_file"
     /\ ~isabs(last.filename)
     /\ StrictlyInside(ws.working_dir, AbsoluteForm(ws.working_dir, last.filename)))
        => /\ raised = "none"
           /\ RelativeForm(ws.working_dir, AbsoluteForm(ws.working_dir, last.filename))
                  \in ws.files

(* ============================== C6 .. C10 ============================== *)

\* the marker directory of the managed directory for a marker argument
MarkerDir(marker) == join(BaseWorkspace_working_dir(dir), marker)

\* the init entry or a bootstrap primitive is among the given calls
Bootstraps(cs) == \E i \in 1..Len(cs) : cs[i].op \in {"init", "clone", "init_new"}

\* C6: a construction against a directory whose marker directory exists
\* invokes neither the init entry of the dispatch table nor clone nor
\* init_new, and leaves the disk as it is.
C6_MarkerSkipsInit ==
    [][(/\ last'.op = "CmdWorkspace"
        /\ last'.marker # None
        /\ MarkerDir(last'.marker) \in disk)
           => (~Bootstraps(calls') /\ disk' = disk /\ raised' = "none")]_vars

\* a workspace whose table binds init was constructed on an initialised
\* directory: the marker was checked and nothing else was called
C6_Witness ==
    /\ last.op = "CmdWorkspace"
    /\ "init" \in ws.cmd_table
    /\ MarkerDir(ws.marker) \in disk
    /\ calls = <<Call("check_marker", <<>>)>>

\* C7: save on a workspace whose dispatch table binds no save handler is a
\* no-op for every set of keyword options: it raises nothing.
C7_MissingSaveIsNoOp ==
    (last.op = "save" /\ "save" \notin ws.cmd_table) => raised = "none"

\* the remote counts as set: it is neither None nor the empty string
RemoteIsSet == cmd.remote # None /\ cmd.remote # <<>>

\* the last operation ran the command's init: at construction, through
\* workspace.initialize, or by a direct call
InitRan == last.op \in {"CmdWorkspace", "initialize", "cmd.init"} /\ Count("init") > 0

\* C8 as stated: init invokes clone exactly when the remote is not None, and
\* init_new exactly when it is None.
C8_CloneIffNotNone ==
    InitRan =>
        /\ Count("clone") + Count("init_new") = 1
        /\ Count("clone") = 1 <=> cmd.remote # None

\* C8: init invokes exactly one bootstrap primitive exactly once: clone when
\* the remote is neither None nor the empty string, init_new otherwise.
C8_CloneIffRemoteSet ==
    InitRan =>
        /\ Count("init") = 1
        /\ Count("clone") + Count("init_new") = 1
        /\ Count("clone") = 1 <=> RemoteIsSet

\* a fresh directory was constructed with a command that has a remote, and
\* was cloned
C8_Witness ==
    /\ InitRan /\ raised = "none"
    /\ last.op = "CmdWorkspace"
    /\ cmd.remote = <<"/", "x">>
    /\ Count("clone") = 1
    /\ MarkerDir(ws.marker) \in disk

\* C9: a construction without a marker fails with the assertion error
\* before the marker is checked or any handler or primitive is invoked,
\* produces no workspace and leaves the disk and the repository alone.
\* (An interpreter that drops assert statements gets as far as check_marker
\* and fails there with the TypeError of join.)
C9_MarkerRequired ==
    [][(last'.op = "CmdWorkspace" /\ last'.marker = None)
           => /\ raised' = "AssertionError"
              /\ calls' = <<>>
              /\ ws' = NoWorkspace
              /\ disk' = disk /\ repo' = repo]_vars

\* C10: when primitive number k of a save raises, the error reaches the
\* caller, the calls made are the first k calls of the protocol and nothing
\* after them (no retry, no later primitive), and the primitives that
\* succeeded keep their effect: a commit before a failed push stays in the
\* history, and nothing else of the repository changes.
C10_FailureStopsSave ==
    [][(last'.op \in {"save", "cmd.save"} /\ last'.failAt > 0)
           => LET k == last'.failAt
                  n == Cardinality(ws.files)
                  p == SubSeq(calls', 2, Len(calls'))
              IN  /\ raised' = "BackendError"
                  /\ Len(p) = k
                  /\ \A i \in 1..k :
                         p[i].op = IF i <= n THEN "add"
                                   ELSE IF i = n + 1 THEN "commit" ELSE "push"
                  /\ \A i, j \in 1..k : (i # j /\ i <= n /\ j <= n) => p[i].arg # p[j].arg
                  /\ repo'.history = IF k = n + 2
                                     THEN Append(repo.history, MessageOf(last'.kw))
                                     ELSE repo.history
                  /\ repo'.pushed = repo.pushed
                  /\ ws' = ws]_vars

\* a save failed in push after its commit went into the history
C10_Witness ==
    /\ last.op = "save" /\ raised = "BackendError"
    /\ last.failAt = Cardinality(ws.files) + 2
    /\ Cardinality(ws.files) = 2
    /\ calls[Len(calls)].op = "push"
    /\ repo.history # <<>>

(* ============================= C11 .. C12 ============================== *)

\* the step runs the command's save: workspace.save dispatched to it, or a
\* direct call of it
SaveStep == (last'.op = "save" /\ "save" \in ws.cmd_table) \/ last'.op = "cmd.save"

\* C11: while no remote is configured, push is a no-op and not an error: a
\* save whose adds and commit go through completes without raising, its
\* commit is in the local history and nothing reaches the remote.
\* (BaseDvcsCmd.save calls push whether or not a remote is set, and the push
\* of BaseDvcsCmd raises whatever the remote is: the save of a backend that
\* defines add and commit only fails in push after its commit.)
C11_LocalOnlySave ==
    [][(/\ SaveStep /\ ~RemoteIsSet
        /\ last'.failAt \notin 1..(Cardinality(ws.files) + 1))
           => /\ raised' = "none"
              /\ calls'[Len(calls')].op = "push"
              /\ repo'.history = Append(repo.history, MessageOf(last'.kw))
              /\ repo'.pushed = repo.pushed]_vars

\* C12: a successful save made while a remote is set leaves the remote
\* holding the whole history in creation order: every commit of the earlier
\* saves, those made without a remote included, and the new one.
C12_PushCatchesUp ==
    [][(SaveStep /\ RemoteIsSet /\ raised' = "none")
           => /\ repo'.history = Append(repo.history, MessageOf(last'.kw))
              /\ repo'.pushed = Len(repo'.history)]_vars

\* after a commit made without a remote, a save with a remote went through
\* and the remote holds both commits
C12_Witness ==
    /\ SaveRan /\ raised = "none"
    /\ RemoteIsSet
    /\ repo.local
    /\ Len(repo.history) = 2
    /\ repo.pushed = 2

(* ============================= C13 .. C15 ============================== *)

\* number of calls of primitive op among the calls cs
CountIn(cs, op) == Cardinality({i \in 1..Len(cs) : cs[i].op = op})

\* the base target of the last get_remote call: the explicit target, else
\* the stored remote, else the default
BaseTarget ==
    IF last.target # None THEN last.target
    ELSE IF repo.stored # None THEN repo.stored
    ELSE default_remote

\* b is scheme://authority... with both parts non-empty, the '://' at i
UrlAt(b, i) ==
    /\ i > 1 /\ i + 3 <= Len(b)
    /\ SubSeq(b, i, i + 2) = <<":", "/", "/">>
    /\ \A j \in 1..(i - 1) : SubSeq(b, j, j + 2) # <<":", "/", "/">>
    /\ b[i + 3] # "/"

\* C13: get_remote returns the base target (explicit target, else stored
\* remote, else default_remote), with username:password@ put in front of
\* the host exactly when both credentials are supplied and the base target
\* is a URL with an authority, and unchanged in every other case.
C13_GetRemote ==
    last.op = "get_remote" =>
        LET b     == BaseTarget
            creds == last.username # None /\ last.password # None
            isUrl == \E i \in 1..Len(b) : UrlAt(b, i)
        IN  IF creds /\ isUrl
            THEN \E i \in 1..Len(b) :
                     /\ UrlAt(b, i)
                     /\ ret = SubSeq(b, 1, i + 2) \o last.username \o <<":">>
                                  \o last.password \o <<"@">> \o SliceFrom(b, i + 2)
            ELSE ret = b

\* get_remote with both credentials on the stored remote h://x/r returned
\* h://u:p@x/r
C13_Witness ==
    /\ last.op = "get_remote"
    /\ last.target = None /\ last.username = <<"u">> /\ last.password = <<"p">>
    /\ repo.stored = <<"h", ":", "/", "/", "x", "/", "r">>
    /\ ret = <<"h", ":", "/", "/", "u", ":", "p", "@", "x", "/", "r">>

\* the value holds no credentials (None holds none)
CredentialFree(remote) == \A i \in 1..Len(remote) : remote[i] # "@"

\* C14: the stored remote and the in-memory remote are always values that
\* were set as remote, never a target with credentials in it, and
\* get_remote changes neither of them.
C14_CredentialsNotPersisted ==
    /\ [](/\ cmd.remote \in RemoteUrlInputs /\ CredentialFree(cmd.remote)
          /\ repo.stored \in RemoteUrlInputs /\ CredentialFree(repo.stored))
    /\ [][last'.op = "get_remote" => (cmd' = cmd /\ repo' = repo)]_vars

\* a push with credentials went to a target that carries them, and the
\* stored and the in-memory remote are still the plain URL
C14_Witness ==
    /\ last.op = "push"
    /\ last.username = <<"u">> /\ last.password = <<"p">>
    /\ calls[1].arg = <<"h", ":", "/", "/", "u", ":", "p", "@", "x", "/", "r">>
    /\ repo.stored = <<"h", ":", "/", "/", "x", "/", "r">>
    /\ cmd.remote = repo.stored

\* C15: update_remote loads the stored remote when the in-memory one is
\* unset and writes nothing; writes the in-memory one when it is set and
\* differs; does nothing when both are unset.  When a side was set the two
\* are equal afterwards, and an update_remote directly after an
\* update_remote writes nothing and changes nothing.
C15_UpdateRemote ==
    [][last'.op = "update_remote"
           => /\ cmd.remote = None
                    => /\ cmd'.remote = repo.stored
                       /\ repo' = repo
                       /\ CountIn(calls', "write_remote") = 0
              /\ (cmd.remote # None /\ cmd.remote # repo.stored)
                    => /\ repo'.stored = cmd.remote
                       /\ cmd' = cmd
              /\ (cmd.remote # None \/ repo.stored # None)
                    => cmd'.remote = repo'.stored
              /\ last.op = "update_remote"
                    => /\ CountIn(calls', "write_remote") = 0
                       /\ cmd' = cmd /\ repo' = repo]_vars

\* an update_remote has written the in-memory remote: both sides now agree
C15_Witness ==
    /\ last.op = "update_remote"
    /\ Count("write_remote") = 1
    /\ cmd.remote # None
    /\ cmd.remote = repo.stored

(* ============================= C16 .. C19 ============================== *)

\* C16: every successful save of a workspace driven by the command (or of
\* the command called directly) performs exactly one commit, which adds
\* exactly one commit to the history, and at most one push; no step other
\* than a save commits or pushes or changes the history or the remote.
C16_OneCommitPerSave ==
    [][/\ (SaveStep /\ raised' = "none")
             => /\ CountIn(calls', "commit") = 1
                /\ CountIn(calls', "push") <= 1
                /\ Len(repo'.history) = Len(repo.history) + 1
                /\ SubSeq(repo'.history, 1, Len(repo.history)) = repo.history
       /\ last'.op \notin {"save", "cmd.save"}
             => /\ CountIn(calls', "commit") = 0
                /\ CountIn(calls', "push") = 0
                /\ repo' = repo]_vars

\* the second of two saves went through, with one commit and one push of
\* its own, and the history holds two commits
C16_Witness ==
    /\ SaveRan /\ raised = "none"
    /\ Len(repo.history) = 2
    /\ ws.files # {}
    /\ Count("commit") = 1
    /\ Count("push") = 1

\* C17: the marker is checked at construction only: add_file,
\* get_tracked_subpaths, reset and save neither check the marker nor invoke
\* the init handler, clone or init_new, whether or not the marker directory
\* is still on disk.
C17_NoRecheck ==
    last.op \in {"add_file", "get_tracked_subpaths", "reset", "save"}
        => \A i \in 1..Len(calls) :
               calls[i].op \notin {"check_marker", "init", "clone", "init_new"}

\* a save went through the full protocol on a workspace whose table binds
\* init, after the marker directory had disappeared from disk
C17_Witness ==
    /\ SaveRan /\ raised = "none"
    /\ "init" \in ws.cmd_table
    /\ disk = {}
    /\ Count("commit") = 1

\* C18: reset empties the tracked set and changes nothing else: the other
\* fields of the workspace, the command, the disk and the repository stay
\* as they are and no handler or primitive is called; a save that directly
\* follows a reset calls add zero times.
C18_ResetFrame ==
    [][/\ last'.op = "reset"
             => /\ ws' = [ws EXCEPT !.files = {}]
                /\ cmd' = cmd /\ dir' = dir /\ disk' = disk /\ repo' = repo
                /\ calls' = <<>>
                /\ raised' = "none"
       /\ (last.op = "reset" /\ last'.op \in {"save", "cmd.save"})
             => CountIn(calls', "add") = 0]_vars

\* a reset has cleared two tracked paths of an initialised workspace that
\* already has a commit
C18_Witness ==
    /\ last.op = "reset"
    /\ last.nfiles = 2
    /\ ws.files = {}
    /\ ws.working_dir # <<>>
    /\ disk # {}
    /\ repo.history # <<>>

\* C19: save leaves the tracked set (and the rest of the workspace) as it
\* is, whether it succeeds or fails, and a save of a workspace driven by the
\* command whose primitives succeed calls add for every tracked path, also
\* for those an earlier save has committed already.
C19_SaveKeepsTracked ==
    [][last'.op \in {"save", "cmd.save"}
           => /\ ws' = ws
              /\ (SaveStep /\ last'.failAt = 0)
                     => {calls'[i].arg : i \in {j \in 1..Len(calls') : calls'[j].op = "add"}}
                            = ws.files]_vars

\* a second save went through with the same two tracked paths added again
C19_Witness ==
    /\ SaveRan /\ raised = "none"
    /\ Len(repo.history) = 2
    /\ Cardinality(ws.files) = 2
    /\ Count("add") = 2

====
